---- MODULE Spec2Model ----
(***************************************************************************)
(* McCulloch-Pitts neurons (MPInput, MPNeuron), the AND / OR / NOT gates   *)
(* and the truth-table Decoder of "McCulloch-Pitts Neurons.ipynb".         *)
(*                                                                         *)
(* Python objects are modelled by reference: MPInput objects live in a     *)
(* heap (a sequence of records) and are named by their index, so that      *)
(* aliasing of input lists (the closure variable `inputs` of decode())     *)
(* and the in-place list reversal of decoder_units are visible.            *)
(*                                                                         *)
(* Three specifications share the variables:                               *)
(*   Spec        one Decoder: construction, decode(), calls of the result  *)
(*   SpecPair    two Decoders side by side (relational claims)             *)
(*   SpecNeuron  one MPNeuron with its MPInputs, and the gate functions    *)
(***************************************************************************)
EXTENDS Integers, Sequences, FiniteSets, TLC

(* ------------------------------ bounds -------------------------------- *)
MaxVecLen == 1        \* longest bit-vector handed to Decoder in Spec
MaxVecs == 2          \* longest vector list handed to Decoder in Spec
MaxCalls == 2         \* returning calls made on the decoded function in Spec
PairVecLen == 2       \* length of the bit-vectors in SpecPair
PairMaxVecs == 2      \* longest vector list in SpecPair
PairMaxCalls == 2     \* returning calls made on each function in SpecPair
MaxInputs == 2        \* inputs of the free-standing neuron in SpecNeuron
MaxThreshold == 2     \* thresholds range over -MaxThreshold..MaxThreshold
MaxValue == 2         \* trigger arguments range over -MaxValue..MaxValue

Bit == {0, 1}
BitVecs(n) == [1..n -> Bit]
SeqsUpTo(S, n) == UNION {[1..k -> S] : k \in 0..n}

VARIABLES
  pc,             \* per Decoder: "start", "constructed", "ctor_failed",
                  \*              "decoded", "decode_failed"
  ctorArg,        \* per Decoder: the `vectors` argument given to Decoder(...)
  self,           \* per Decoder: the object's fields vectors, vec_length
  inputObjs,      \* per Decoder: heap of the MPInput objects made by decode()
  neurons,        \* per Decoder: heap of the MPNeuron objects made by decode()
  decoder_units,  \* per Decoder: the list decoder_units (references to neurons)
  inputs,         \* per Decoder: closure variable `inputs` (references to MPInputs)
  ncalls,         \* per Decoder: number of calls of the function that returned
  last,           \* per Decoder: the latest call of the function, [made, args, ret]
  prev,           \* per Decoder: the call before the latest one
  prevOk,         \* per Decoder: the latest call that returned, among the calls
                  \*              before the latest one
  sync,           \* SpecPair: both functions got the same sequence of calls so far
  neuron,         \* SpecNeuron: the MPNeuron (threshold, references to its inputs)
  nheap,          \* SpecNeuron: heap of the neuron's MPInput objects
  out,            \* SpecNeuron: what activate() returned for the current input
                  \*             values; -1 when not called since the last trigger
  gate            \* SpecNeuron: the last gate call, [name, args, ret]

vars == <<pc, ctorArg, self, inputObjs, neurons, decoder_units, inputs,
          ncalls, last, prev, prevOk, sync, neuron, nheap, out, gate>>
decVars == <<pc, ctorArg, self, inputObjs, neurons, decoder_units, inputs,
             ncalls, last, prev, prevOk, sync>>
neuVars == <<neuron, nheap, out, gate>>

(* --------------------------- MPInput ---------------------------------- *)
\* MPInput.__init__
MPInput(excitatory) == [excitatory |-> excitatory, value |-> 0]

\* MPInput.trigger: plain assignment, no validation
trigger(inp, value) == [inp EXCEPT !.value = value]

(* --------------------------- MPNeuron --------------------------------- *)
\* MPNeuron.__init__ ; ins is the list of references to the MPInput objects
MPNeuron(threshold, ins) == [threshold |-> threshold, inputs |-> ins]

\* activate with a strict threshold test
RECURSIVE activateLoop_strict(_, _, _, _)
activateLoop_strict(n, heap, k, excitations) ==
  IF k > Len(n.inputs)
    THEN (IF excitations > n.threshold THEN 1 ELSE 0)
    ELSE LET trig == heap[n.inputs[k]] IN
         IF trig.excitatory
           THEN activateLoop_strict(n, heap, k + 1, excitations + trig.value)
           ELSE IF trig.value # 0
                  THEN 0
                  ELSE activateLoop_strict(n, heap, k + 1, excitations)

\* activate with the threshold test turned round
RECURSIVE activateLoop_le(_, _, _, _)
activateLoop_le(n, heap, k, excitations) ==
  IF k > Len(n.inputs)
    THEN (IF excitations <= n.threshold THEN 1 ELSE 0)
    ELSE LET trig == heap[n.inputs[k]] IN
         IF trig.excitatory
           THEN activateLoop_le(n, heap, k + 1, excitations + trig.value)
           ELSE IF trig.value # 0
                  THEN 0
                  ELSE activateLoop_le(n, heap, k + 1, excitations)

\* activate that fires as soon as the threshold is reached inside the loop
RECURSIVE activateLoop_earlyFire(_, _, _, _)
activateLoop_earlyFire(n, heap, k, excitations) ==
  IF excitations >= n.threshold /\ k > 1
    THEN 1
    ELSE IF k > Len(n.inputs)
      THEN (IF excitations >= n.threshold THEN 1 ELSE 0)
      ELSE LET trig == heap[n.inputs[k]] IN
           IF trig.excitatory
             THEN activateLoop_earlyFire(n, heap, k + 1, excitations + trig.value)
             ELSE IF trig.value # 0
                    THEN 0
                    ELSE activateLoop_earlyFire(n, heap, k + 1, excitations)

\* the for loop of MPNeuron.activate, at position k with `excitations` so far
RECURSIVE activateLoop(_, _, _, _)
activateLoop(n, heap, k, excitations) ==
  IF k > Len(n.inputs)
    THEN (IF excitations >= n.threshold THEN 1 ELSE 0)
    ELSE LET trig == heap[n.inputs[k]] IN
         IF trig.excitatory
           THEN activateLoop(n, heap, k + 1, excitations + trig.value)
           ELSE IF trig.value # 0
                  THEN 0
                  ELSE activateLoop(n, heap, k + 1, excitations)

\* MPNeuron.activate
activate(n, heap) == activateLoop(n, heap, 1, 0)

(* ----------------------------- gates ---------------------------------- *)
\* heap after inputs[i].trigger(v)
triggerAt(heap, ref, v) == [heap EXCEPT ![ref] = trigger(heap[ref], v)]

\* AND with the threshold of OR
AND_threshold1(x1, x2) ==
  LET heap0 == <<MPInput(TRUE), MPInput(TRUE)>>
      g == MPNeuron(1, <<1, 2>>)
      heap1 == triggerAt(heap0, 1, x1)
      heap2 == triggerAt(heap1, 2, x2)
  IN  activate(g, heap2)

AND(x1, x2) ==
  LET heap0 == <<MPInput(TRUE), MPInput(TRUE)>>
      g == MPNeuron(2, <<1, 2>>)
      heap1 == triggerAt(heap0, 1, x1)
      heap2 == triggerAt(heap1, 2, x2)
  IN  activate(g, heap2)

\* OR with the second input inhibitory
OR_inhibitory2(x1, x2) ==
  LET heap0 == <<MPInput(TRUE), MPInput(FALSE)>>
      g == MPNeuron(1, <<1, 2>>)
      heap1 == triggerAt(heap0, 1, x1)
      heap2 == triggerAt(heap1, 2, x2)
  IN  activate(g, heap2)

OR(x1, x2) ==
  LET heap0 == <<MPInput(TRUE), MPInput(TRUE)>>
      g == MPNeuron(1, <<1, 2>>)
      heap1 == triggerAt(heap0, 1, x1)
      heap2 == triggerAt(heap1, 2, x2)
  IN  activate(g, heap2)

\* NOT built with an excitatory input
NOT_excitatory(x) ==
  LET heap0 == <<MPInput(TRUE)>>
      g == MPNeuron(0, <<1>>)
      heap1 == triggerAt(heap0, 1, x)
  IN  activate(g, heap1)

NOT(x) ==
  LET heap0 == <<MPInput(FALSE)>>
      g == MPNeuron(0, <<1>>)
      heap1 == triggerAt(heap0, 1, x)
  IN  activate(g, heap1)

(* ---------------------------- Decoder --------------------------------- *)
\* Decoder.__init__: self.vectors[0] raises IndexError on an empty list;
\* assert(<generator expression>) tests the generator object itself, which
\* is always true, so no length is ever compared.
\* __init__ that takes the length with a default instead of vectors[0]
Decoder_emptyAccepted(vectors) ==
  [raised |-> "none", vectors |-> vectors,
   vec_length |-> IF Len(vectors) = 0 THEN 0 ELSE Len(vectors[1])]

Decoder(vectors) ==
  IF Len(vectors) = 0
    THEN [raised |-> "IndexError", vectors |-> vectors, vec_length |-> -1]
    ELSE [raised |-> "none", vectors |-> vectors,
          vec_length |-> Len(vectors[1])]

\* builtin sum(vector)
RECURSIVE sum(_)
sum(v) == IF Len(v) = 0 THEN 0 ELSE v[1] + sum(Tail(v))

\* decode() that makes every input excitatory
newInputs_allExcitatory(vector, n) == [i \in 1..n |-> MPInput(TRUE)]

\* the inner loop of decode(): one MPInput per position < vec_length
newInputs(vector, n) == [i \in 1..n |-> MPInput(vector[i] = 1)]

\* decode() with `inputs = []` hoisted out of the loop over the vectors: every
\* unit gets the same list object, whose first vec_length entries are the
\* inputs built for the first vector
RECURSIVE decodeLoop_sharedInputs(_, _, _, _, _, _)
decodeLoop_sharedInputs(s, k, heap, ns, units, ins) ==
  IF k > Len(s.vectors)
    THEN [raised |-> "none", inputObjs |-> heap, neurons |-> ns,
          decoder_units |-> units, inputs |-> ins]
    ELSE LET vector == s.vectors[k] IN
         IF Len(vector) < s.vec_length
           THEN [raised |-> "IndexError", inputObjs |-> heap, neurons |-> ns,
                 decoder_units |-> units, inputs |-> ins]
           ELSE LET refs == [i \in 1..s.vec_length |-> i]
                    heap2 == heap \o newInputs(vector, s.vec_length)
                    ns2 == Append(ns, MPNeuron(sum(vector), refs))
                IN  decodeLoop_sharedInputs(s, k + 1, heap2, ns2,
                                            Append(units, Len(ns2)), refs)

\* the outer loop of decode(), at vector k. vector[i] raises IndexError when
\* the vector is shorter than vec_length. `ins` is the variable `inputs`,
\* rebound to a fresh list for every vector.
RECURSIVE decodeLoop(_, _, _, _, _, _)
decodeLoop(s, k, heap, ns, units, ins) ==
  IF k > Len(s.vectors)
    THEN [raised |-> "none", inputObjs |-> heap, neurons |-> ns,
          decoder_units |-> units, inputs |-> ins]
    ELSE LET vector == s.vectors[k] IN
         IF Len(vector) < s.vec_length
           THEN [raised |-> "IndexError", inputObjs |-> heap, neurons |-> ns,
                 decoder_units |-> units, inputs |-> ins]
           ELSE LET refs == [i \in 1..s.vec_length |-> Len(heap) + i]
                    heap2 == heap \o newInputs(vector, s.vec_length)
                    ns2 == Append(ns, MPNeuron(sum(vector), refs))
                IN  decodeLoop(s, k + 1, heap2, ns2,
                               Append(units, Len(ns2)), refs)

\* Decoder.decode, up to the definition of the closure
decode(s) == decodeLoop(s, 1, <<>>, <<>>, <<>>, <<>>)

\* for i in range(n): refs[i].trigger(args[i]), from position i on
RECURSIVE triggerLoop(_, _, _, _, _)
triggerLoop(heap, refs, args, i, n) ==
  IF i > n
    THEN heap
    ELSE triggerLoop(triggerAt(heap, refs[i], args[i]), refs, args, i + 1, n)

\* list.reverse()
reverse(l) == [i \in 1..Len(l) |-> l[Len(l) + 1 - i]]

\* the loop `for unit in decoder_units` of decoder(*args), at unit k
RECURSIVE foldUnits(_, _, _, _, _, _, _)
foldUnits(units, ns, heap, args, n, k, or_arg) ==
  IF k > Len(units)
    THEN [heap |-> heap, or_arg |-> or_arg]
    ELSE LET unit == ns[units[k]]
             heap2 == triggerLoop(heap, unit.inputs, args, 1, n)
             val == activate(unit, heap2)
         IN  foldUnits(units, ns, heap2, args, n, k + 1, OR(or_arg, val))

\* the seed taken from decoder_units[0] before the reversal
seedUnit_noReverse(units) == units[1]

\* the unit whose activation seeds or_arg: decoder_units[0] after the reversal
seedUnit(units) == reverse(units)[1]

\* decoder(*args) with decoder_units.reverse() moved before the first loop,
\* so that a call that raises has already reversed the list
decoderOn_reverseFirst(slf, inp, heap, neur, units, args) ==
  LET n == slf.vec_length
      m == IF Len(args) < n THEN Len(args) ELSE n
      heap1 == triggerLoop(heap, inp, args, 1, m)
      rev == reverse(units)
  IN  IF Len(args) < n
        THEN [raised |-> "IndexError", value |-> -1, inputObjs |-> heap1,
              decoder_units |-> rev]
        ELSE LET seed == activate(neur[seedUnit(units)], heap1)
                 f == foldUnits(rev, neur, heap1, args, n, 1, seed)
             IN  [raised |-> "none", value |-> f.or_arg, inputObjs |-> f.heap,
                  decoder_units |-> rev]

\* the closure decoder(*args) of decoder d. The first loop triggers the list
\* `inputs` (the inputs of the unit built last) and raises IndexError at
\* args[i] when fewer than vec_length arguments were given; surplus
\* arguments are never read.
\* decoderOn is the closure run on an explicit state: the Decoder object slf,
\* the closure variable inp, the Input heap, the unit heap neur and the list
\* units.
decoderOn(slf, inp, heap, neur, units, args) ==
  LET n == slf.vec_length
      m == IF Len(args) < n THEN Len(args) ELSE n
      heap1 == triggerLoop(heap, inp, args, 1, m)
  IN  IF Len(args) < n
        THEN [raised |-> "IndexError", value |-> -1, inputObjs |-> heap1,
              decoder_units |-> units]
        ELSE LET rev == reverse(units)
                 seed == activate(neur[seedUnit(units)], heap1)
                 f == foldUnits(rev, neur, heap1, args, n, 1, seed)
             IN  [raised |-> "none", value |-> f.or_arg, inputObjs |-> f.heap,
                  decoder_units |-> rev]

\* the closure run on the current state of decoder d
decoder(d, args) ==
  decoderOn(self[d], inputs[d], inputObjs[d], neurons[d], decoder_units[d], args)

(* ------------------------- Decoder actions ---------------------------- *)
NoObject == [vectors |-> <<>>, vec_length |-> -1]
NoGate == [name |-> "none", args |-> <<>>, ret |-> -1]
NoCall == [made |-> FALSE, args |-> <<>>,
           ret |-> [raised |-> "none", value |-> -1]]

\* dec = Decoder(V)
Construct(d, V) ==
  /\ pc[d] = "start"
  /\ LET r == Decoder(V) IN
       /\ pc' = [pc EXCEPT ![d] = IF r.raised = "none" THEN "constructed"
                                                      ELSE "ctor_failed"]
       /\ self' = [self EXCEPT ![d] =
                     IF r.raised = "none"
                       THEN [vectors |-> r.vectors, vec_length |-> r.vec_length]
                       ELSE NoObject]
  /\ ctorArg' = [ctorArg EXCEPT ![d] = V]
  /\ UNCHANGED <<inputObjs, neurons, decoder_units, inputs,
                 ncalls, last, prev, prevOk, sync, neuVars>>

\* f = dec.decode()
Decode(d) ==
  /\ pc[d] = "constructed"
  /\ LET r == decode(self[d]) IN
       IF r.raised = "none"
         THEN /\ pc' = [pc EXCEPT ![d] = "decoded"]
              /\ inputObjs' = [inputObjs EXCEPT ![d] = r.inputObjs]
              /\ neurons' = [neurons EXCEPT ![d] = r.neurons]
              /\ decoder_units' = [decoder_units EXCEPT ![d] = r.decoder_units]
              /\ inputs' = [inputs EXCEPT ![d] = r.inputs]
         ELSE /\ pc' = [pc EXCEPT ![d] = "decode_failed"]
              /\ UNCHANGED <<inputObjs, neurons, decoder_units, inputs>>
  /\ UNCHANGED <<ctorArg, self, ncalls, last, prev, prevOk, sync, neuVars>>

\* f(*args), made on every function of the set D with the same arguments
CallOn(D, args) ==
  /\ \A d \in D : pc[d] = "decoded"
  /\ LET r == [d \in D |-> decoder(d, args)] IN
       /\ inputObjs' = [d \in DOMAIN inputObjs |->
                         IF d \in D THEN r[d].inputObjs ELSE inputObjs[d]]
       /\ decoder_units' = [d \in DOMAIN decoder_units |->
                             IF d \in D THEN r[d].decoder_units
                                        ELSE decoder_units[d]]
       /\ last' = [d \in DOMAIN last |->
                    IF d \in D
                      THEN [made |-> TRUE, args |-> args,
                            ret |-> [raised |-> r[d].raised,
                                     value |-> r[d].value]]
                      ELSE last[d]]
       /\ ncalls' = [d \in DOMAIN ncalls |->
                      IF d \in D /\ r[d].raised = "none"
                        THEN ncalls[d] + 1
                        ELSE ncalls[d]]
  /\ prev' = [d \in DOMAIN prev |-> IF d \in D THEN last[d] ELSE prev[d]]
  /\ prevOk' = [d \in DOMAIN prevOk |->
                 IF d \in D /\ last[d].made /\ last[d].ret.raised = "none"
                   THEN last[d]
                   ELSE prevOk[d]]
  /\ UNCHANGED <<pc, ctorArg, self, neurons, inputs, neuVars>>

\* argument tuples tried on a function of arity n: n bits, one bit too few,
\* and n bits followed by one surplus argument
ArgTuples(n) ==
  BitVecs(n) \cup UNION {BitVecs(k) : k \in {n - 1} \cap Nat}
             \cup {Append(a, 1) : a \in BitVecs(n)}

DecInit(D) ==
  /\ pc = [d \in D |-> "start"]
  /\ ctorArg = [d \in D |-> <<>>]
  /\ self = [d \in D |-> NoObject]
  /\ inputObjs = [d \in D |-> <<>>]
  /\ neurons = [d \in D |-> <<>>]
  /\ decoder_units = [d \in D |-> <<>>]
  /\ inputs = [d \in D |-> <<>>]
  /\ ncalls = [d \in D |-> 0]
  /\ last = [d \in D |-> NoCall]
  /\ prev = [d \in D |-> NoCall]
  /\ prevOk = [d \in D |-> NoCall]
  /\ sync = TRUE

NeuIdle ==
  /\ neuron = MPNeuron(0, <<>>)
  /\ nheap = <<>>
  /\ out = -1
  /\ gate = NoGate

(* ------------------------ Spec: one Decoder --------------------------- *)
VectorLists == SeqsUpTo(UNION {BitVecs(n) : n \in 0..MaxVecLen}, MaxVecs)

Init == DecInit({1}) /\ NeuIdle

DoConstruct == \E V \in VectorLists : Construct(1, V)
DoDecode == Decode(1)
DoCall ==
  /\ ncalls[1] < MaxCalls
  /\ \E args \in ArgTuples(self[1].vec_length) : CallOn({1}, args)
  /\ UNCHANGED sync

Next == DoConstruct \/ DoDecode \/ DoCall

Spec == Init /\ [][Next]_vars

(* ----------------------- SpecPair: two Decoders ----------------------- *)
PairVectorLists == UNION {[1..k -> BitVecs(PairVecLen)] : k \in 1..PairMaxVecs}

PairInit == DecInit({1, 2}) /\ NeuIdle

PairConstruct == \E d \in {1, 2} : \E V \in PairVectorLists : Construct(d, V)
PairDecode == \E d \in {1, 2} : Decode(d)
\* one of the two functions is called
PairCallOne ==
  /\ \E d \in {1, 2} :
       /\ ncalls[d] < PairMaxCalls
       /\ \E args \in BitVecs(PairVecLen) : CallOn({d}, args)
  /\ sync' = FALSE

\* both functions are called with the same arguments
PairCallBoth ==
  /\ ncalls[1] < PairMaxCalls /\ ncalls[2] < PairMaxCalls
  /\ \E args \in BitVecs(PairVecLen) : CallOn({1, 2}, args)
  /\ UNCHANGED sync

PairNext == PairConstruct \/ PairDecode \/ PairCallOne \/ PairCallBoth

SpecPair == PairInit /\ [][PairNext]_vars

(* ------------- SpecNeuron: one neuron, and the gates ------------------ *)
Thresholds == (0 - MaxThreshold) .. MaxThreshold
Values == (0 - MaxValue) .. MaxValue

NeuronInit ==
  /\ DecInit({})
  /\ \E k \in 0..MaxInputs :
       /\ \E t \in Thresholds : neuron = MPNeuron(t, [i \in 1..k |-> i])
       /\ nheap \in [1..k -> {MPInput(TRUE), MPInput(FALSE)}]
  /\ out = -1
  /\ gate = NoGate

\* inputs[i].trigger(v)
Trigger ==
  /\ \E i \in DOMAIN nheap : \E v \in Values : nheap' = triggerAt(nheap, i, v)
  /\ out' = -1
  /\ UNCHANGED <<neuron, gate, decVars>>

\* neuron.activate()
Activate ==
  /\ out' = activate(neuron, nheap)
  /\ UNCHANGED <<neuron, nheap, gate, decVars>>

CallAND ==
  /\ \E x1 \in Bit, x2 \in Bit :
       gate' = [name |-> "AND", args |-> <<x1, x2>>, ret |-> AND(x1, x2)]
  /\ UNCHANGED <<neuron, nheap, out, decVars>>

CallOR ==
  /\ \E x1 \in Bit, x2 \in Bit :
       gate' = [name |-> "OR", args |-> <<x1, x2>>, ret |-> OR(x1, x2)]
  /\ UNCHANGED <<neuron, nheap, out, decVars>>

CallNOT ==
  /\ \E x \in Bit : gate' = [name |-> "NOT", args |-> <<x>>, ret |-> NOT(x)]
  /\ UNCHANGED <<neuron, nheap, out, decVars>>

NeuronNext == Trigger \/ Activate \/ CallAND \/ CallOR \/ CallNOT

SpecNeuron == NeuronInit /\ [][NeuronNext]_vars

(* ============================ claims ================================== *)
EqualLen(V) == \A i \in DOMAIN V : Len(V[i]) = Len(V[1])
InV(a, V) == \E i \in DOMAIN V : V[i] = a
LastCall(d) == last[d]
Called(d) == pc[d] = "decoded" /\ last[d].made

\* C1: on a decoder built from a non-empty list V of vectors of one length n,
\* every call with n bits returns 1 if its arguments are an element of V and
\* 0 otherwise, whatever calls came before.
C1_DecoderMatchesV ==
  (/\ Called(1)
   /\ EqualLen(ctorArg[1])
   /\ Len(LastCall(1).args) = self[1].vec_length)
  => /\ LastCall(1).ret.raised = "none"
     /\ LastCall(1).ret.value \in Bit
     /\ LastCall(1).ret.value = 1 <=> InV(LastCall(1).args, ctorArg[1])

\* C2: two decoded functions of the same vector list, driven through
\* different earlier calls, return the same value when both are then called
\* with the same arguments.
C2_ResultDependsOnArgsOnly ==
  (/\ Called(1) /\ Called(2)
   /\ ctorArg[1] = ctorArg[2]
   /\ LastCall(1).args = LastCall(2).args)
  => LastCall(1).ret = LastCall(2).ret

\* V2 is V with one more copy of a vector of V inserted at some position
IsDupInsert(V, V2) ==
  /\ Len(V) > 0
  /\ Len(V2) = Len(V) + 1
  /\ \E p \in DOMAIN V2 :
       /\ InV(V2[p], V)
       /\ V = [i \in 1..Len(V) |-> IF i < p THEN V2[i] ELSE V2[i + 1]]

\* C3: inserting one more copy of a vector already in V does not change the
\* decoded function: on the same sequence of argument tuples, both functions
\* return the same value at every call (sync: the two functions were driven
\* through the same calls; the formula is about the latest of them, and
\* every prefix of a call sequence is a reachable state).
C3_DuplicateIrrelevant ==
  (/\ Called(1) /\ Called(2)
   /\ IsDupInsert(ctorArg[1], ctorArg[2])
   /\ sync)
  => LastCall(1).ret = LastCall(2).ret

Count(V, x) == Cardinality({i \in DOMAIN V : V[i] = x})
IsPermutation(V, V2) ==
  /\ Len(V) = Len(V2)
  /\ \A i \in DOMAIN V : Count(V, V[i]) = Count(V2, V[i])

\* C4: permuting the vector list does not change the decoded function: on
\* the same sequence of argument tuples, both functions return the same
\* value at every call (sync as in C3).
C4_OrderIrrelevant ==
  (/\ Called(1) /\ Called(2)
   /\ IsPermutation(ctorArg[1], ctorArg[2])
   /\ sync)
  => LastCall(1).ret = LastCall(2).ret

\* C5: Decoder(V) fails at construction when some vector of V differs in
\* length from V's first vector; no Decoder object is produced.
C5_MismatchRejected ==
  (pc[1] # "start" /\ Len(ctorArg[1]) > 0 /\ ~EqualLen(ctorArg[1]))
  => (pc[1] = "ctor_failed" /\ self[1] = NoObject)

\* C6: Decoder([]) fails at construction, no Decoder object is produced, and
\* decode() is never reached with an undefined vector length.
C6_EmptyRejected ==
  /\ (pc[1] # "start" /\ Len(ctorArg[1]) = 0)
       => (pc[1] = "ctor_failed" /\ self[1] = NoObject)
  /\ pc[1] \in {"constructed", "decoded", "decode_failed"}
       => (self[1].vec_length \in Nat /\ Len(self[1].vectors) > 0)

C6_Witness == pc[1] = "ctor_failed" /\ Len(ctorArg[1]) = 0

\* C7: a call of the decoded function with fewer or with more than
\* vec_length arguments fails with an error instead of returning a bit.
C7_WrongArityRejected ==
  (Called(1) /\ Len(LastCall(1).args) # self[1].vec_length)
  => LastCall(1).ret.raised # "none"

\* C8: an MPInput's value is 0 or 1 in every reachable state, whatever
\* integers trigger() is called with.
C8_ValueIsBit == \A i \in DOMAIN nheap : nheap[i].value \in Bit

\* C9: for all bits x1, x2, AND(x1, x2) returns 1 if x1 = 1 and x2 = 1, and
\* 0 otherwise.
C9_AND ==
  gate.name = "AND"
  => /\ gate.ret \in Bit
     /\ gate.ret = 1 <=> (gate.args[1] = 1 /\ gate.args[2] = 1)

C9_Witness == gate.name = "AND" /\ gate.args = <<1, 1>> /\ gate.ret = 1

\* C10: for all bits x1, x2, OR(x1, x2) returns 1 if x1 = 1 or x2 = 1, and
\* 0 otherwise.
C10_OR ==
  gate.name = "OR"
  => /\ gate.ret \in Bit
     /\ gate.ret = 1 <=> (gate.args[1] = 1 \/ gate.args[2] = 1)

C10_Witness == gate.name = "OR" /\ gate.args = <<0, 1>> /\ gate.ret = 1

\* C11: for all bits x, NOT(x) returns 1 - x: the single inhibitory input
\* with threshold 0 fires on 0 and is inhibited on 1.
C11_NOT == gate.name = "NOT" => gate.ret = 1 - gate.args[1]

C11_Witness == gate.name = "NOT" /\ gate.args = <<0>> /\ gate.ret = 1

(* ---- the free-standing neuron: activate() on the current values ------- *)
Activated == out # -1
AllBits == \A i \in DOMAIN nheap : nheap[i].value \in Bit
InputOf(k) == nheap[neuron.inputs[k]]
Inhibited ==
  \E k \in DOMAIN neuron.inputs : ~InputOf(k).excitatory /\ InputOf(k).value = 1
RECURSIVE ExcSumUpTo(_)
ExcSumUpTo(k) ==
  IF k = 0 THEN 0
  ELSE ExcSumUpTo(k - 1) + (IF InputOf(k).excitatory THEN InputOf(k).value ELSE 0)
ExcSum == ExcSumUpTo(Len(neuron.inputs))

\* C12: for any integer threshold (0 and negative included) and inputs
\* holding bits, activate() returns 1 if no inhibitory input has value 1 and
\* the sum of the excitatory inputs' values is at least the threshold, and 0
\* otherwise.
C12_ActivationRule ==
  (Activated /\ AllBits)
  => out = (IF ~Inhibited /\ ExcSum >= neuron.threshold THEN 1 ELSE 0)

C12_Witness ==
  /\ Activated /\ AllBits /\ out = 1
  /\ neuron.threshold = 1 /\ ExcSum = 1
  /\ \E k \in DOMAIN neuron.inputs : ~InputOf(k).excitatory

\* the neuron's activation were its inputs triggered with the bit-vector y
ActivationOn(y) ==
  activate(neuron, triggerLoop(nheap, neuron.inputs, y, 1, Len(neuron.inputs)))
CurrentValues == [k \in DOMAIN neuron.inputs |-> InputOf(k).value]
Dominates(x, y) == \A k \in DOMAIN y : y[k] = 1 => x[k] = 1
AllExcitatory == \A k \in DOMAIN neuron.inputs : InputOf(k).excitatory

\* C13: for a neuron with excitatory inputs only and any threshold, if x
\* dominates y then the activation on x is at least the activation on y
\* (x or y being the values activate() was just called on).
C13_Monotone ==
  (Activated /\ AllBits /\ AllExcitatory)
  => \A y \in BitVecs(Len(neuron.inputs)) :
       /\ Dominates(CurrentValues, y) => out >= ActivationOn(y)
       /\ Dominates(y, CurrentValues) => ActivationOn(y) >= out

C13_Witness ==
  /\ Activated /\ AllBits /\ AllExcitatory /\ out = 1
  /\ \E y \in BitVecs(Len(neuron.inputs)) :
       Dominates(CurrentValues, y) /\ ActivationOn(y) = 0

Perms(k) == {p \in [1..k -> 1..k] : \A i, j \in 1..k : p[i] = p[j] => i = j}
Permuted(p) ==
  MPNeuron(neuron.threshold, [i \in DOMAIN neuron.inputs |-> neuron.inputs[p[i]]])

\* C15: for any threshold and inputs holding bits, activate() returns the
\* same value for every permutation of the input list, although an
\* inhibitory input with value 1 ends the loop before later inputs are read.
C15_InputOrderIrrelevant ==
  (Activated /\ AllBits)
  => \A p \in Perms(Len(neuron.inputs)) : activate(Permuted(p), nheap) = out

C15_Witness ==
  /\ Activated /\ AllBits /\ out = 0
  /\ Len(neuron.inputs) = 2
  /\ ~InputOf(1).excitatory /\ InputOf(1).value = 1
  /\ InputOf(2).excitatory /\ InputOf(2).value = 1
  /\ neuron.threshold <= 1

(* ------------------- the units of the decoded function ---------------- *)
Arity == self[1].vec_length
Unit(k) == neurons[1][k]
UnitInput(k, i) == inputObjs[1][Unit(k).inputs[i]]
UnitValues(k) == [i \in 1..Arity |-> UnitInput(k, i).value]
UnitFires(k) == activate(Unit(k), inputObjs[1]) = 1
\* the activation of unit k were its inputs triggered with x
UnitFiresOn(k, x) ==
  activate(Unit(k), triggerLoop(inputObjs[1], Unit(k).inputs, x, 1, Arity)) = 1
Returned(d) == Called(d) /\ last[d].ret.raised = "none"

\* C14: the unit decode() builds for a bit-vector v (threshold = sum of v,
\* input i excitatory when v[i] = 1, inhibitory when v[i] = 0) activates to 1
\* if and only if the bit-vector of the same length triggered into its
\* inputs equals v position by position.
C14_UnitFiresOnItsVector ==
  pc[1] = "decoded"
  => \A k \in DOMAIN neurons[1] :
       Len(self[1].vectors[k]) = Arity
       => /\ Unit(k).threshold = sum(self[1].vectors[k])
          /\ \A i \in 1..Arity :
               UnitInput(k, i).excitatory <=> self[1].vectors[k][i] = 1
          /\ UnitFires(k) <=> UnitValues(k) = self[1].vectors[k]
          /\ \A x \in BitVecs(Arity) :
               UnitFiresOn(k, x) <=> x = self[1].vectors[k]

C14_Witness ==
  /\ Returned(1) /\ Arity >= 1
  /\ \E k, j \in DOMAIN neurons[1] :
       /\ UnitValues(k) = self[1].vectors[k] /\ UnitFires(k)
       /\ UnitValues(j) # self[1].vectors[j] /\ ~UnitFires(j)

\* the decoder over the same units whose fold starts from 0
RefDecoderFromZero(d, args) ==
  foldUnits(decoder_units[d], neurons[d], inputObjs[d], args,
            self[d].vec_length, 1, 0).or_arg

\* C16: seeding the OR fold with decoder_units[0].activate() is equivalent
\* to seeding it with 0: every call returns what the reference decoder over
\* the same units, folding from 0, returns for the same arguments.
C16_SeedEquivalentToZero ==
  Returned(1) => last[1].ret.value = RefDecoderFromZero(1, last[1].args)

\* C17: when a call with vec_length bits returns, every MPInput of every
\* decoder unit holds the corresponding bit of that call's arguments, and no
\* MPInput object belongs to more than one unit.
C17_UnitsRetriggered ==
  (Returned(1) /\ Len(last[1].args) = Arity)
  => /\ \A k \in DOMAIN neurons[1] :
          /\ Len(Unit(k).inputs) = Arity
          /\ UnitValues(k) = last[1].args
     /\ \A k, j \in DOMAIN neurons[1] : \A i, h \in 1..Arity :
          Unit(k).inputs[i] = Unit(j).inputs[h] => (k = j /\ i = h)

C17_Witness ==
  /\ Returned(1) /\ Arity >= 1 /\ Len(last[1].args) = Arity
  /\ Len(neurons[1]) = 2
  /\ prev[1].made /\ prev[1].args # last[1].args
  /\ UnitValues(1) = last[1].args /\ UnitValues(2) = last[1].args

(* ------------------- odd and even calls of the function --------------- *)
\* the arguments a returning call reads: the first vec_length of them
Read(args) == SubSeq(args, 1, Arity)
LastBuilt == Len(neurons[1])
OddCall == Returned(1) /\ EqualLen(ctorArg[1]) /\ ncalls[1] % 2 = 1
EvenCall ==
  Returned(1) /\ EqualLen(ctorArg[1]) /\ Len(ctorArg[1]) >= 2 /\ ncalls[1] % 2 = 0

\* C18: on a function decoded from a non-empty equal-length list V, every
\* odd-numbered returning call returns 1 if and only if its arguments are an
\* element of V, whatever the earlier calls were; the unit that seeds the
\* fold is then the last-built unit, just triggered with the arguments.
C18_OddCallsMatchV ==
  OddCall
  => /\ last[1].ret.value = 1 <=> InV(last[1].args, ctorArg[1])
     /\ decoder_units[1][1] = LastBuilt
     /\ Unit(LastBuilt).inputs = inputs[1]

\* C18 for the odd-numbered returning calls that were given exactly
\* vec_length arguments (the earlier calls being of any length)
OddCallsExactArity ==
  (OddCall /\ Len(last[1].args) = Arity)
  => /\ last[1].ret.value = 1 <=> InV(last[1].args, ctorArg[1])
     /\ decoder_units[1][1] = LastBuilt
     /\ Unit(LastBuilt).inputs = inputs[1]

C20_FailedCallNoEffect ==
  [][(pc[1] = "decoded" /\ last'[1].made /\ last'[1].ret.raised = "IndexError")
     => /\ decoder_units' = decoder_units
        /\ ncalls' = ncalls
        /\ \A a \in ArgTuples(Arity) :
             Len(a) >= Arity
             => decoderOn(self'[1], inputs'[1], inputObjs'[1], neurons'[1],
                          decoder_units'[1], a) = decoder(1, a)]_vars

C20_Witness ==
  /\ Called(1) /\ last[1].ret.raised = "IndexError"
  /\ prev[1].made /\ prev[1].ret.raised = "none"
  /\ ncalls[1] % 2 = 1
  /\ Len(neurons[1]) = 2 /\ decoder_units[1] = <<2, 1>>

====
